---- MODULE Spec2Model ----
(***************************************************************************)
(* Model of the "Convert Document" command (src/src/convert-document.tsx). *)
(* Paths, extensions and format specifiers are sequences of one-character  *)
(* strings, so that path.extname, String.replace, split and the other      *)
(* string functions are computed as the code computes them.                *)
(***************************************************************************)
EXTENDS Integers, Sequences, FiniteSets, TLC

VARIABLES
    mounted,        \* the command's view is on the navigation stack
    probe,          \* result of isLibreOfficeInstalled(): "unknown" | "yes" | "no"
    initPc,         \* position of initialize()
    isLoading, selectedFile, useFilePicker, outputFormat, isConverting,
    pc,             \* position of each outstanding handleConvert call
    job,            \* selectedFile / outputFormat the call closed over
    idx,            \* index of the format the call is converting to
    outputPaths,    \* outputPaths of the call
    io,             \* external calls the call has made, in order
    toast,          \* the toast the call holds
    clipboard,      \* file references the call has set the clipboard to
    disk            \* output files written so far

vars == <<mounted, probe, initPc, isLoading, selectedFile, useFilePicker,
          outputFormat, isConverting, pc, job, idx, outputPaths, io, toast,
          clipboard, disk>>

uiVars == <<isLoading, selectedFile, useFilePicker, outputFormat>>
callVars == <<pc, job, idx, outputPaths, io, toast, clipboard>>

-----------------------------------------------------------------------------
(* Bounds *)

\* handleConvert calls that can be outstanding at the same time
MaxHandlers == 2

Handlers == 1..MaxHandlers

-----------------------------------------------------------------------------
(* Strings *)

Empty == <<>>

\* the greatest i <= from with s[i] = c (0 if none)
RECURSIVE LastIndexFrom(_, _, _)
LastIndexFrom(s, c, from) ==
    IF from = 0 THEN 0
    ELSE IF s[from] = c THEN from ELSE LastIndexFrom(s, c, from - 1)

LastIndexOf(s, c) == LastIndexFrom(s, c, Len(s))

\* the least i >= from with s[i] = c (0 if none)
RECURSIVE IndexFrom(_, _, _)
IndexFrom(s, c, from) ==
    IF from > Len(s) THEN 0
    ELSE IF s[from] = c THEN from ELSE IndexFrom(s, c, from + 1)

Range(s) == {s[i] : i \in 1..Len(s)}

Includes(s, c) == IndexFrom(s, c, 1) # 0

ToLowerChar(c) ==
    CASE c = "D" -> "d" [] c = "O" -> "o" [] c = "C" -> "c" [] c = "X" -> "x"
      [] c = "P" -> "p" [] c = "F" -> "f" [] OTHER -> c

ToLowerCase(s) == [i \in 1..Len(s) |-> ToLowerChar(s[i])]

\* String.prototype.split(sep) for a one-character separator
RECURSIVE Split(_, _)
Split(s, sep) ==
    LET i == IndexFrom(s, sep, 1) IN
    IF i = 0 THEN <<s>>
    ELSE <<SubSeq(s, 1, i - 1)>> \o Split(SubSeq(s, i + 1, Len(s)), sep)

\* Array.prototype.join(sep)
RECURSIVE Join(_, _)
Join(parts, sep) ==
    IF parts = <<>> THEN <<>>
    ELSE IF Len(parts) = 1 THEN parts[1]
    ELSE parts[1] \o sep \o Join(Tail(parts), sep)

\* index of the last character that is not a path separator (0 if none)
RECURSIVE LastNonSlashFrom(_, _)
LastNonSlashFrom(p, from) ==
    IF from = 0 THEN 0
    ELSE IF p[from] # "/" THEN from ELSE LastNonSlashFrom(p, from - 1)

LastNonSlash(p) == LastNonSlashFrom(p, Len(p))

\* path.basename(p) (posix): the last portion, trailing separators ignored
Basename(p) ==
    LET e == LastNonSlash(p)
        q == SubSeq(p, 1, e)
    IN SubSeq(q, LastIndexOf(q, "/") + 1, e)

\* path.dirname(p) (posix): up to the last separator before the last portion
Dirname(p) ==
    LET e == LastNonSlash(p)
        j == LastIndexFrom(p, "/", e)
        hasRoot == Len(p) > 0 /\ p[1] = "/"
    IN IF Len(p) = 0 THEN <<".">>
       ELSE IF j <= 1 THEN (IF hasRoot THEN <<"/">> ELSE <<".">>)
       ELSE IF hasRoot /\ j = 2 THEN <<"/", "/">>
       ELSE SubSeq(p, 1, j - 1)

\* path.extname(p) (posix): from the last "." of the last portion to its end;
\* empty when there is no ".", when the only "." starts the portion, or for ".."
Extname(p) ==
    LET b == Basename(p)
        d == LastIndexOf(b, ".")
    IN IF d <= 1 \/ b = <<".", ".">> THEN Empty ELSE SubSeq(b, d, Len(b))

\* a replace that cuts at the first "." of the path instead of the last
ReplaceFromFirstDot(s, r) ==
    LET d == IndexFrom(s, ".", 1)
    IN IF d = 0 \/ d = Len(s) THEN s ELSE SubSeq(s, 1, d - 1) \o r

\* s.replace(/\.[^.]+$/, r): the last "." and the one or more characters
\* after it, none of them a ".", are replaced; s is unchanged without a match
ReplaceTrailingExtension(s, r) ==
    LET d == LastIndexOf(s, ".")
    IN IF d = 0 \/ d = Len(s) THEN s ELSE SubSeq(s, 1, d - 1) \o r

-----------------------------------------------------------------------------
(* Format catalog *)

PDF == <<".", "p", "d", "f">>
DOC == <<".", "d", "o", "c">>
DOCX == <<".", "d", "o", "c", "x">>
PDF_DOCX == PDF \o <<"+">> \o DOCX
PDF_DOC == PDF \o <<"+">> \o DOC

\* a catalog whose Word targets changed places: each format is offered itself
SUPPORTED_FORMATS_SelfTarget ==
    (DOC :> <<PDF, DOC, PDF_DOCX>>) @@ (DOCX :> <<PDF, DOCX, PDF_DOC>>)

\* a catalog whose two "both" options changed places
SUPPORTED_FORMATS_Crossed ==
    (DOC :> <<PDF, DOCX, PDF_DOC>>) @@ (DOCX :> <<PDF, DOC, PDF_DOCX>>)

SUPPORTED_FORMATS ==
    (DOC :> <<PDF, DOCX, PDF_DOCX>>) @@ (DOCX :> <<PDF, DOC, PDF_DOC>>)

FORMAT_LABELS ==
    (PDF :> "PDF") @@ (DOC :> "Word Document (.doc)")
    @@ (DOCX :> "Word Document (.docx)")
    @@ (PDF_DOCX :> "Both (PDF + DOCX)") @@ (PDF_DOC :> "Both (PDF + DOC)")

getExtension(filePath) == ToLowerCase(Extname(filePath))

isSupportedFile(filePath) == getExtension(filePath) \in DOMAIN SUPPORTED_FORMATS

getOutputFormats(filePath) ==
    IF getExtension(filePath) \in DOMAIN SUPPORTED_FORMATS
    THEN SUPPORTED_FORMATS[getExtension(filePath)] ELSE <<>>


-----------------------------------------------------------------------------
(* Inputs *)

ReportDocx == <<"/", "d", "/", "r", "e", "p", "o", "r", "t", ".", "d", "o", "c", "x">>
UpperDoc == <<"/", "d", ".", "x", "/", "a", ".", "b", ".", "D", "O", "C">>
NotesTxt == <<"/", "d", "/", "n", "o", "t", "e", "s", ".", "t", "x", "t">>
DotDoc == <<"/", "d", "/", ".", "d", "o", "c">>

Paths == {ReportDocx, UpperDoc, NotesTxt, DotDoc}

\* results of getSelectedFinderItems(): the paths of the selected items
FinderSelections == {<<>>, <<NotesTxt, ReportDocx, UpperDoc>>, <<NotesTxt, DotDoc>>}

\* values the file picker passes to onChange
PickerValues == {<<>>, <<UpperDoc>>, <<NotesTxt>>}

NoFile == Empty

-----------------------------------------------------------------------------
(* State after the first render *)

\* a toast: title is one token, message a text (characters and fixed tokens)
NoToast == [style |-> "none", title |-> "", message |-> <<>>]
NoJob == [selectedFile |-> NoFile, outputFormat |-> Empty]

Init ==
    /\ mounted = TRUE
    /\ probe = "unknown"
    /\ initPc = "mount"
    /\ isLoading = TRUE
    /\ selectedFile = NoFile
    /\ useFilePicker = FALSE
    /\ outputFormat = Empty
    /\ isConverting = FALSE
    /\ pc = [h \in Handlers |-> "idle"]
    /\ job = [h \in Handlers |-> NoJob]
    /\ idx = [h \in Handlers |-> 0]
    /\ outputPaths = [h \in Handlers |-> <<>>]
    /\ io = [h \in Handlers |-> <<>>]
    /\ toast = [h \in Handlers |-> NoToast]
    /\ clipboard = [h \in Handlers |-> <<>>]
    /\ disk = {}

\* A call that has run its last statement returns before the next event is
\* taken: JavaScript runs a callback to its next await or to its end
AtEnd(h) == pc[h] \in {"done", "returned"}

EventLoopFree == \A h \in Handlers : ~AtEnd(h)

-----------------------------------------------------------------------------
(* initialize() *)

\* execSync("which soffice || ls ...") either returns or throws
isLibreOfficeInstalled(execSucceeds) == execSucceeds

\* an initialize that goes on to the Finder lookup whatever the probe said
AfterProbeNoReturn(installed) == "finder"

\* what initialize does after the probe: it stops on a missing tool
AfterProbe(installed) == IF installed THEN "finder" ELSE "toast"

\* the effect runs initialize(): the probe, then either the failure toast
\* or the Finder lookup is awaited
InitializeProbe ==
    /\ EventLoopFree
    /\ initPc = "mount"
    /\ \E execSucceeds \in BOOLEAN :
         /\ probe' = IF isLibreOfficeInstalled(execSucceeds) THEN "yes" ELSE "no"
         /\ initPc' = AfterProbe(isLibreOfficeInstalled(execSucceeds))
    /\ UNCHANGED <<mounted, uiVars, isConverting, callVars, disk>>

\* showToast("LibreOffice Required") resolved; popToRoot() is awaited
InitializeToastShown ==
    /\ EventLoopFree
    /\ initPc = "toast"
    /\ initPc' = "pop"
    /\ UNCHANGED <<mounted, probe, uiVars, isConverting, callVars, disk>>

\* popToRoot() resolved; initialize returns
InitializePopped ==
    /\ EventLoopFree
    /\ initPc = "pop"
    /\ initPc' = "blocked"
    /\ mounted' = FALSE
    /\ UNCHANGED <<probe, uiVars, isConverting, callVars, disk>>

\* a filter that hands the supported items back last first
RECURSIVE supportedFilesReversed(_)
supportedFilesReversed(items) ==
    IF items = <<>> THEN <<>>
    ELSE supportedFilesReversed(Tail(items))
         \o (IF isSupportedFile(Head(items)) THEN <<Head(items)>> ELSE <<>>)

\* finderItems.filter((item) => isSupportedFile(item.path))
RECURSIVE supportedFiles(_)
supportedFiles(items) ==
    IF items = <<>> THEN <<>>
    ELSE (IF isSupportedFile(Head(items)) THEN <<Head(items)>> ELSE <<>>)
         \o supportedFiles(Tail(items))

\* a selection that takes the last legal format as the default
SelectFileLast(filePath) ==
    /\ selectedFile' = filePath
    /\ outputFormat' = IF Len(getOutputFormats(filePath)) > 0
                       THEN getOutputFormats(filePath)[Len(getOutputFormats(filePath))]
                       ELSE outputFormat

\* setSelectedFile(filePath) and the default output format
SelectFile(filePath) ==
    /\ selectedFile' = filePath
    /\ outputFormat' = IF Len(getOutputFormats(filePath)) > 0
                       THEN getOutputFormats(filePath)[1] ELSE outputFormat

\* getSelectedFinderItems() resolved with items
InitializeFinderItems(items) ==
    /\ EventLoopFree
    /\ initPc = "finder"
    /\ IF Len(supportedFiles(items)) > 0
       THEN SelectFile(supportedFiles(items)[1]) /\ UNCHANGED useFilePicker
       ELSE useFilePicker' = TRUE /\ UNCHANGED <<selectedFile, outputFormat>>
    /\ isLoading' = FALSE
    /\ initPc' = "ready"
    /\ UNCHANGED <<mounted, probe, isConverting, callVars, disk>>

\* getSelectedFinderItems() rejected
InitializeFinderFailed ==
    /\ EventLoopFree
    /\ initPc = "finder"
    /\ useFilePicker' = TRUE
    /\ isLoading' = FALSE
    /\ initPc' = "ready"
    /\ UNCHANGED <<mounted, probe, selectedFile, outputFormat, isConverting,
                   callVars, disk>>

-----------------------------------------------------------------------------
(* Form events *)

\* a picker handler that takes whatever path it is given
handleFileChangeUnchecked(files) ==
    /\ EventLoopFree
    /\ mounted /\ useFilePicker
    /\ IF Len(files) > 0
       THEN selectedFile' = files[1] /\ UNCHANGED outputFormat
       ELSE selectedFile' = NoFile /\ outputFormat' = Empty
    /\ UNCHANGED <<mounted, probe, initPc, isLoading, useFilePicker,
                   isConverting, callVars, disk>>

\* onChange of the file picker, rendered when useFilePicker is set
handleFileChange(files) ==
    /\ EventLoopFree
    /\ mounted /\ useFilePicker
    /\ IF Len(files) > 0
       THEN IF isSupportedFile(files[1])
            THEN SelectFile(files[1])
            ELSE UNCHANGED <<selectedFile, outputFormat>>
       ELSE selectedFile' = NoFile /\ outputFormat' = Empty
    /\ UNCHANGED <<mounted, probe, initPc, isLoading, useFilePicker,
                   isConverting, callVars, disk>>

\* const availableFormats = selectedFile ? getOutputFormats(selectedFile) : []
availableFormats == IF selectedFile # NoFile THEN getOutputFormats(selectedFile) ELSE <<>>

\* onChange of the format dropdown, rendered when a file is selected; its
\* items are the available formats
setOutputFormat(format) ==
    /\ EventLoopFree
    /\ mounted /\ selectedFile # NoFile
    /\ format \in Range(availableFormats)
    /\ outputFormat' = format
    /\ UNCHANGED <<mounted, probe, initPc, isLoading, selectedFile,
                   useFilePicker, isConverting, callVars, disk>>

-----------------------------------------------------------------------------
(* handleConvert() *)

\* an external call, what it was given and whether it returned or threw
Event(op, arg, ok) == [op |-> op, arg |-> arg, ok |-> ok]

\* a catch block without the finally clause
CatchNoFinally(h, message) ==
    /\ toast' = [toast EXCEPT ![h] = [style |-> "failure",
                                      title |-> "Conversion Failed",
                                      message |-> <<message>>]]
    /\ pc' = [pc EXCEPT ![h] = "done"]
    /\ UNCHANGED isConverting

\* a catch block that goes back to the converter call instead of giving up
CatchRetry(h, message) ==
    /\ pc' = [pc EXCEPT ![h] = "converting"]
    /\ UNCHANGED <<toast, isConverting>>

\* catch (error) { toast... = Failure } finally { setIsConverting(false) };
\* message is error.message, one token
Catch(h, message) ==
    /\ toast' = [toast EXCEPT ![h] = [style |-> "failure",
                                      title |-> "Conversion Failed",
                                      message |-> <<message>>]]
    /\ isConverting' = FALSE
    /\ pc' = [pc EXCEPT ![h] = "done"]

\* a guard that lets every call through
MissingSelectionNever == FALSE

\* if (!selectedFile || !outputFormat)
MissingSelection == selectedFile = NoFile \/ outputFormat = Empty

\* the Convert action: the guard on the selection, setIsConverting(true) and
\* the animated toast; handleConvert closes over the rendered state.
\* The call takes the first free slot.
handleConvert(h) ==
    /\ EventLoopFree
    /\ mounted
    /\ pc[h] = "idle"
    /\ \A g \in Handlers : g < h => pc[g] # "idle"
    /\ IF MissingSelection
       THEN /\ toast' = [toast EXCEPT ![h] =
                          [style |-> "failure", title |-> "Missing Selection",
                           message |-> <<"Please select a file and output format">>]]
            /\ pc' = [pc EXCEPT ![h] = "returned"]
            /\ UNCHANGED <<isConverting, job>>
       ELSE /\ isConverting' = TRUE
            /\ job' = [job EXCEPT ![h] = [selectedFile |-> selectedFile,
                                          outputFormat |-> outputFormat]]
            /\ toast' = [toast EXCEPT ![h] = [style |-> "animated",
                                              title |-> "Converting...",
                                              message |-> Basename(selectedFile)]]
            /\ pc' = [pc EXCEPT ![h] = "toast"]
    /\ UNCHANGED <<mounted, probe, initPc, uiVars, idx, outputPaths, io, clipboard, disk>>

\* a split that hands the elements back in the opposite order
FormatsOfReversed(format) ==
    IF Includes(format, "+")
    THEN [i \in 1..Len(Split(format, "+")) |->
             Split(format, "+")[Len(Split(format, "+")) + 1 - i]]
    ELSE <<format>>

\* the list convertDocument is called for: the elements of a "both" option
\* (outputFormat.split("+")) or the single format
FormatsOf(format) ==
    IF Includes(format, "+") THEN Split(format, "+") ELSE <<format>>

\* a list of formats cut down to its first element
formatsFirstOnly(h) == <<FormatsOf(job[h].outputFormat)[1]>>

formats(h) == FormatsOf(job[h].outputFormat)

\* an output path that steps aside when the file is already there
OutputPathNoOverwrite(inputPath, format) ==
    IF ReplaceTrailingExtension(inputPath, format) \in disk
    THEN ReplaceTrailingExtension(inputPath, <<"-", "1">> \o format)
    ELSE ReplaceTrailingExtension(inputPath, format)

\* const outputPath = inputPath.replace(/\.[^.]+$/, outputFormat)
OutputPath(inputPath, format) == ReplaceTrailingExtension(inputPath, format)

\* the next element convertDocumentMultiple's loop goes on with
NextIndex(i) == i + 1

\* showToast resolved: the try block picks the list of formats and calls
\* convertDocument for the first one, which reads the input and awaits the
\* converter
BeginConversion(h) ==
    /\ EventLoopFree
    /\ pc[h] = "toast"
    /\ idx' = [idx EXCEPT ![h] = 1]
    /\ \E readOk \in BOOLEAN :
         /\ io' = [io EXCEPT ![h] = @ \o <<Event("read", job[h].selectedFile, readOk)>>]
         /\ IF readOk
            THEN /\ pc' = [pc EXCEPT ![h] = "converting"]
                 /\ UNCHANGED <<toast, isConverting>>
            ELSE Catch(h, "ENOENT")
    /\ UNCHANGED <<mounted, probe, initPc, uiVars, job, outputPaths, clipboard, disk>>

\* a path list that keeps the first file only
PathListFirstOnly(filePaths) ==
    IF filePaths = <<>> THEN <<>>
    ELSE <<"POSIX file \"">> \o Head(filePaths) \o <<"\"">>

\* filePaths.map((p) => `POSIX file "${p}"`).join(", "); the fixed pieces
\* are single tokens, the paths are spliced in character by character
PathList(filePaths) ==
    Join([i \in 1..Len(filePaths) |->
             <<"POSIX file \"">> \o filePaths[i] \o <<"\"">>], <<", ">>)

\* const script = `set the clipboard to {${pathList}}`
Script(filePaths) == <<"set the clipboard to {">> \o PathList(filePaths) \o <<"}">>

\* what osascript makes of the items of a list literal: each item is the
\* text between `POSIX file "` and the next `"`, items are separated by ", "
\* and the list ends with "}"; anything else is a syntax error
RECURSIVE ParseItems(_)
ParseItems(s) ==
    IF Len(s) < 3 \/ s[1] # "POSIX file \"" \/ IndexFrom(s, "\"", 2) = 0
    THEN [ok |-> FALSE, items |-> <<>>]
    ELSE LET q == IndexFrom(s, "\"", 2)
             item == SubSeq(s, 2, q - 1)
             rest == SubSeq(s, q + 1, Len(s))
         IN IF rest = <<"}">> THEN [ok |-> TRUE, items |-> <<item>>]
            ELSE IF rest # <<>> /\ rest[1] = ", "
            THEN [ok |-> ParseItems(Tail(rest)).ok,
                  items |-> <<item>> \o ParseItems(Tail(rest)).items]
            ELSE [ok |-> FALSE, items |-> <<>>]

\* execSync(`osascript -e '${script}'`): the shell ends the quoted argument at
\* the first apostrophe, so a script with one in it does not run as written
RunScript(script) ==
    IF Includes(script, "'") \/ script[1] # "set the clipboard to {"
    THEN [ok |-> FALSE, items |-> <<>>]
    ELSE IF Tail(script) = <<"}">> THEN [ok |-> TRUE, items |-> <<>>]
    ELSE ParseItems(Tail(script))

\* copyFilesToClipboard(filePaths): the script is built and run; the result
\* is the file references the clipboard is set to when osascript succeeds
copyFilesToClipboard(filePaths) == RunScript(Script(filePaths))

\* const fileNames = outputPaths.map((p) => path.basename(p)).join(", ")
FileNames(paths) == Join([i \in 1..Len(paths) |-> Basename(paths[i])], <<", ">>)

\* convertAsync settled. Up to the next await the call either lands in the
\* catch block, or writes the output and calls convertDocument for the next
\* format, or, after the last format, copies the outputs to the clipboard,
\* sets the success toast and shows the HUD
ConverterReturns(h) ==
    /\ EventLoopFree
    /\ pc[h] = "converting"
    /\ LET format == formats(h)[idx[h]]
           outputPath == OutputPath(job[h].selectedFile, format)
           paths == Append(outputPaths[h], outputPath)
       IN
       \/ \* convertAsync rejected
          /\ io' = [io EXCEPT ![h] = @ \o <<Event("convert", format, FALSE)>>]
          /\ Catch(h, "libreoffice-convert error")
          /\ UNCHANGED <<idx, outputPaths, clipboard, disk>>
       \/ \* fs.writeFileSync threw
          /\ io' = [io EXCEPT ![h] = @ \o <<Event("convert", format, TRUE),
                                            Event("write", outputPath, FALSE)>>]
          /\ Catch(h, "EACCES")
          /\ UNCHANGED <<idx, outputPaths, clipboard, disk>>
       \/ \* written, and the loop of convertDocumentMultiple goes on
          /\ idx[h] < Len(formats(h))
          /\ disk' = disk \cup {outputPath}
          /\ outputPaths' = [outputPaths EXCEPT ![h] = paths]
          /\ idx' = [idx EXCEPT ![h] = NextIndex(@)]
          /\ \E readOk \in BOOLEAN :
               /\ io' = [io EXCEPT ![h] = @ \o <<Event("convert", format, TRUE),
                                                 Event("write", outputPath, TRUE),
                                                 Event("read", job[h].selectedFile, readOk)>>]
               /\ IF readOk
                  THEN UNCHANGED <<pc, toast, isConverting>>
                  ELSE Catch(h, "ENOENT")
          /\ UNCHANGED clipboard
       \/ \* written, and it was the last format: copyFilesToClipboard
          /\ idx[h] >= Len(formats(h))
          /\ disk' = disk \cup {outputPath}
          /\ outputPaths' = [outputPaths EXCEPT ![h] = paths]
          /\ LET run == copyFilesToClipboard(paths) IN
             \E ok \in {b \in BOOLEAN : b => run.ok} :
               /\ io' = [io EXCEPT ![h] = @ \o <<Event("convert", format, TRUE),
                                                 Event("write", outputPath, TRUE),
                                                 Event("clipboard", paths, ok)>>]
               /\ IF ok
                  THEN /\ clipboard' = [clipboard EXCEPT ![h] = run.items]
                       /\ toast' = [toast EXCEPT ![h] =
                             [style |-> "success", title |-> "Conversion Complete",
                              message |-> FileNames(paths)
                                          \o <<" (copied to clipboard)">>]]
                       /\ pc' = [pc EXCEPT ![h] = "hud"]
                       /\ UNCHANGED isConverting
                  ELSE Catch(h, "osascript error") /\ UNCHANGED clipboard
          /\ UNCHANGED idx
    /\ UNCHANGED <<mounted, probe, initPc, uiVars, job>>

\* showHUD resolved; open(path.dirname(outputPaths[0])) is awaited
HudShown(h) ==
    /\ EventLoopFree
    /\ pc[h] = "hud"
    /\ pc' = [pc EXCEPT ![h] = "open"]
    /\ UNCHANGED <<mounted, probe, initPc, uiVars, isConverting, job, idx,
                   outputPaths, io, toast, clipboard, disk>>

\* open(...) settled; on success popToRoot() is awaited
OpenReturns(h) ==
    /\ EventLoopFree
    /\ pc[h] = "open"
    /\ \E ok \in BOOLEAN :
         /\ io' = [io EXCEPT ![h] = @ \o <<Event("open", Dirname(outputPaths[h][1]), ok)>>]
         /\ IF ok
            THEN /\ pc' = [pc EXCEPT ![h] = "pop"]
                 /\ UNCHANGED <<toast, isConverting>>
            ELSE Catch(h, "open error")
    /\ UNCHANGED <<mounted, probe, initPc, uiVars, job, idx, outputPaths,
                   clipboard, disk>>

\* popToRoot() resolved; finally { setIsConverting(false) }
PopReturns(h) ==
    /\ EventLoopFree
    /\ pc[h] = "pop"
    /\ mounted' = FALSE
    /\ isConverting' = FALSE
    /\ pc' = [pc EXCEPT ![h] = "done"]
    /\ UNCHANGED <<probe, initPc, uiVars, job, idx, outputPaths, io, toast,
                   clipboard, disk>>

\* the call returns: its locals are gone and its slot is free
Return(h) ==
    /\ AtEnd(h)
    /\ pc' = [pc EXCEPT ![h] = "idle"]
    /\ job' = [job EXCEPT ![h] = NoJob]
    /\ idx' = [idx EXCEPT ![h] = 0]
    /\ outputPaths' = [outputPaths EXCEPT ![h] = <<>>]
    /\ io' = [io EXCEPT ![h] = <<>>]
    /\ toast' = [toast EXCEPT ![h] = NoToast]
    /\ clipboard' = [clipboard EXCEPT ![h] = <<>>]
    /\ UNCHANGED <<mounted, probe, initPc, uiVars, isConverting, disk>>

-----------------------------------------------------------------------------

Next ==
    \/ InitializeProbe
    \/ InitializeToastShown
    \/ InitializePopped
    \/ \E items \in FinderSelections : InitializeFinderItems(items)
    \/ InitializeFinderFailed
    \/ \E files \in PickerValues : handleFileChange(files)
    \/ \E format \in Range(availableFormats) : setOutputFormat(format)
    \/ \E h \in Handlers : handleConvert(h)
    \/ \E h \in Handlers : BeginConversion(h)
    \/ \E h \in Handlers : ConverterReturns(h)
    \/ \E h \in Handlers : HudShown(h)
    \/ \E h \in Handlers : OpenReturns(h)
    \/ \E h \in Handlers : PopReturns(h)
    \/ \E h \in Handlers : Return(h)

Spec == Init /\ [][Next]_vars

-----------------------------------------------------------------------------
(* The conversion entry point driven with any path and any specifier: the  *)
(* form state handleConvert finds is drawn from all pairs, legal or not    *)

EntryFormats == {PDF, DOC, DOCX, PDF_DOC, PDF_DOCX}

\* the file name  a", POSIX file "b.doc  in /d: the two pieces of script text
\* in it are written as the tokens the script is made of
QuotedDoc ==
    <<"/", "d", "/", "a", "\"", ", ", "POSIX file \"", "b", ".", "d", "o", "c">>

EntryPaths == Paths \cup {QuotedDoc}

InitEntry ==
    /\ mounted = TRUE
    /\ probe = "yes"
    /\ initPc = "ready"
    /\ isLoading = FALSE
    /\ selectedFile \in EntryPaths \cup {NoFile}
    /\ useFilePicker = FALSE
    /\ outputFormat \in EntryFormats \cup {Empty}
    /\ isConverting = FALSE
    /\ pc = [h \in Handlers |-> "idle"]
    /\ job = [h \in Handlers |-> NoJob]
    /\ idx = [h \in Handlers |-> 0]
    /\ outputPaths = [h \in Handlers |-> <<>>]
    /\ io = [h \in Handlers |-> <<>>]
    /\ toast = [h \in Handlers |-> NoToast]
    /\ clipboard = [h \in Handlers |-> <<>>]
    /\ disk = {}

NextEntry ==
    \/ \E h \in Handlers : handleConvert(h)
    \/ \E h \in Handlers : BeginConversion(h)
    \/ \E h \in Handlers : ConverterReturns(h)
    \/ \E h \in Handlers : HudShown(h)
    \/ \E h \in Handlers : OpenReturns(h)
    \/ \E h \in Handlers : PopReturns(h)
    \/ \E h \in Handlers : Return(h)

SpecEntry == InitEntry /\ [][NextEntry]_vars

-----------------------------------------------------------------------------
(* The Convert action on a form that initialize has made ready, with every *)
(* awaited call settling: showToast, convertAsync, showHUD, open and       *)
(* popToRoot resolve or reject, and the event loop runs the continuation   *)
(* of a settled call. A continuation is only held up for the instant in    *)
(* which another call returns, hence strong fairness.                      *)

\* the form after initialize: a supported Finder file with one of its legal
\* formats, or no file and the picker
InitLive ==
    /\ mounted = TRUE
    /\ probe = "yes"
    /\ initPc = "ready"
    /\ isLoading = FALSE
    /\ \/ selectedFile = NoFile /\ outputFormat = Empty
       \/ /\ selectedFile \in {ReportDocx, UpperDoc}
          /\ outputFormat \in Range(getOutputFormats(selectedFile))
    /\ useFilePicker = (selectedFile = NoFile)
    /\ isConverting = FALSE
    /\ pc = [h \in Handlers |-> "idle"]
    /\ job = [h \in Handlers |-> NoJob]
    /\ idx = [h \in Handlers |-> 0]
    /\ outputPaths = [h \in Handlers |-> <<>>]
    /\ io = [h \in Handlers |-> <<>>]
    /\ toast = [h \in Handlers |-> NoToast]
    /\ clipboard = [h \in Handlers |-> <<>>]
    /\ disk = {}

\* the continuation of the call the slot is waiting for
Continue(h) ==
    \/ BeginConversion(h)
    \/ ConverterReturns(h)
    \/ HudShown(h)
    \/ OpenReturns(h)
    \/ PopReturns(h)

Settles(h) == SF_vars(Continue(h)) /\ WF_vars(Return(h))

SpecLive == InitLive /\ [][NextEntry]_vars /\ \A h \in Handlers : Settles(h)

-----------------------------------------------------------------------------
(* The form on its own: initialize, the file picker, the format dropdown   *)
(* and the guard of the Convert action, with more Finder selections and    *)
(* picker values. A call that passed the guard stays at its first await:   *)
(* what it does afterwards does not touch the selection.                   *)

FormFinderSelections ==
    FinderSelections \cup {<<UpperDoc, ReportDocx>>, <<DotDoc, NotesTxt, UpperDoc>>}

FormPickerValues == PickerValues \cup {<<ReportDocx>>, <<DotDoc>>}

NextForm ==
    \/ InitializeProbe
    \/ InitializeToastShown
    \/ InitializePopped
    \/ \E items \in FormFinderSelections : InitializeFinderItems(items)
    \/ InitializeFinderFailed
    \/ \E files \in FormPickerValues : handleFileChange(files)
    \/ \E format \in Range(availableFormats) : setOutputFormat(format)
    \/ \E h \in Handlers : handleConvert(h)
    \/ \E h \in Handlers : Return(h)

SpecForm == Init /\ [][NextForm]_vars

-----------------------------------------------------------------------------
(* Properties *)

\* the call in slot h passed the guard on the selection
Started(h) == job[h] # NoJob

\* the elements of a specifier of the catalog, in their declared order
DeclaredElements(specifier) ==
    CASE specifier = PDF_DOC -> <<PDF, DOC>>
      [] specifier = PDF_DOCX -> <<PDF, DOCX>>
      [] OTHER -> <<specifier>>

Elements(h) == DeclaredElements(job[h].outputFormat)

Count(h, op) == Cardinality({i \in 1..Len(io[h]) : io[h][i].op = op})

Last(h) == io[h][Len(io[h])]

\* the last external call of slot h was op and it failed
FailedAt(h, op) == io[h] # <<>> /\ Last(h).op = op /\ ~Last(h).ok

IsSubstring(sub, s) ==
    \E i \in 0..(Len(s) - Len(sub)) : SubSeq(s, i + 1, i + Len(sub)) = sub

\* the base name without its extension
Stem(p) == SubSeq(Basename(p), 1, Len(Basename(p)) - Len(Extname(p)))

\* the specifier is in the legal-output list of the extension of the path
Legal(j) ==
    /\ isSupportedFile(j.selectedFile)
    /\ j.outputFormat \in Range(getOutputFormats(j.selectedFile))

\* no quote character that would end a string of the script or of the shell
QuoteFree(p) == ~Includes(p, "\"") /\ ~Includes(p, "'")

ReportPdf == <<"/", "d", "/", "r", "e", "p", "o", "r", "t", ".", "p", "d", "f">>
ReportDoc == <<"/", "d", "/", "r", "e", "p", "o", "r", "t", ".", "d", "o", "c">>

\* C1: when the converter succeeds on the first element of a composite
\* specifier and fails on the second, the failure shown to the user names the
\* output already produced for the first element.
C1_FailureNamesProducedOutput ==
    \A h \in Handlers :
        (/\ pc[h] = "done"
         /\ Len(Elements(h)) = 2
         /\ Len(outputPaths[h]) = 1
         /\ FailedAt(h, "convert"))
        => /\ toast[h].style = "failure"
           /\ IsSubstring(Basename(outputPaths[h][1]), toast[h].message)

C3_AtMostOneConversion ==
    \A g, h \in Handlers : (g # h) => ~(Started(g) /\ Started(h))

\* C4: at the end of a call, a failed clipboard publish has not kept the
\* reveal from being performed, and a failed reveal has not kept the
\* clipboard publish from being performed.
C4_PublishAndRevealIndependent ==
    \A h \in Handlers :
        pc[h] = "done"
        => /\ (\E i \in 1..Len(io[h]) : io[h][i].op = "clipboard" /\ ~io[h][i].ok)
                => Count(h, "open") > 0
           /\ FailedAt(h, "open") => Count(h, "clipboard") > 0

\* C5: when every element was converted and written and only the clipboard
\* publish failed, the call does not end in the conversion-failure state.
C5_ClipboardFailureKeepsSuccess ==
    \A h \in Handlers :
        (/\ pc[h] = "done"
         /\ Len(outputPaths[h]) = Len(Elements(h))
         /\ FailedAt(h, "clipboard"))
        => toast[h].title # "Conversion Failed"

\* C6: once the probe has returned false, no file is selected, no call
\* passes the guard, and nothing is read, converted or written.
C6_BlockedTouchesNothing ==
    probe = "no"
    => /\ selectedFile = NoFile
       /\ disk = {}
       /\ \A h \in Handlers : ~Started(h) /\ io[h] = <<>> /\ outputPaths[h] = <<>>

\* the Convert action was triggered after a failed probe, and rejected
C6_Witness == probe = "no" /\ \E h \in Handlers : pc[h] = "returned"

\* C7: the external calls of a conversion are, element by element in the
\* declared order, a read, one converter call for the element and the write
\* of its output, each after the one before; nothing is published before the
\* last write, and the output paths are in the order of the elements.
C7_SequentialInDeclaredOrder ==
    \A h \in Handlers :
        Started(h)
        => LET els == Elements(h)
               n == Len(els)
           IN /\ \A k \in 1..Len(io[h]) :
                    IF k <= 3 * n
                    THEN LET i == ((k - 1) \div 3) + 1
                             r == (k - 1) % 3
                         IN /\ io[h][k].op = <<"read", "convert", "write">>[r + 1]
                            /\ (r = 0) => io[h][k].arg = job[h].selectedFile
                            /\ (r = 1) => io[h][k].arg = els[i]
                            /\ (r = 2) => Extname(io[h][k].arg) = els[i]
                    ELSE io[h][k].op \in {"clipboard", "open"}
              /\ Len(outputPaths[h]) <= n
              /\ \A i \in 1..Len(outputPaths[h]) :
                    /\ Extname(outputPaths[h][i]) = els[i]
                    /\ io[h][3 * i] = Event("write", outputPaths[h][i], TRUE)
              /\ (pc[h] \in {"hud", "open", "pop"}) => Len(outputPaths[h]) = n

\* both elements of a composite specifier were converted and written
C7_Witness ==
    \E h \in Handlers :
        pc[h] = "hud" /\ Len(Elements(h)) = 2 /\ Len(outputPaths[h]) = 2

\* C8: a failed external call is the last call of its conversion, and when
\* the first failing element is the k-th, convertDocument has run k times,
\* once for each of the first k elements: the converter was called for each
\* of them once (not for the k-th when its input could not be read) and for
\* no element after the k-th.
C8_NoRetryStopAtFirstFailure ==
    \A h \in Handlers :
        Started(h)
        => LET k == Len(outputPaths[h]) + 1
               converts == SelectSeq(io[h], LAMBDA e : e.op = "convert")
           IN /\ \A i \in 1..Len(io[h]) :
                    ~io[h][i].ok => (i = Len(io[h]) /\ pc[h] = "done")
              /\ Len(converts) <= Len(Elements(h))
              /\ \A i \in 1..Len(converts) : converts[i].arg = Elements(h)[i]
              /\ (FailedAt(h, "read") \/ FailedAt(h, "convert") \/ FailedAt(h, "write"))
                    => /\ k <= Len(Elements(h))
                       /\ Count(h, "read") = k
                       /\ Count(h, "convert") = IF FailedAt(h, "read") THEN k - 1 ELSE k
                       /\ Count(h, "write") = IF FailedAt(h, "write") THEN k ELSE k - 1

\* the converter failed on the second element after the first was written
C8_Witness ==
    \E h \in Handlers :
        pc[h] = "done" /\ Len(outputPaths[h]) = 1 /\ FailedAt(h, "convert")

\* C9: a conversion with a simple specifier that produced an output produced
\* exactly one path; its extension is the target extension and its directory
\* and stem are those of the input path.
C9_SimpleOutputPath ==
    \A h \in Handlers :
        (Started(h) /\ ~Includes(job[h].outputFormat, "+") /\ outputPaths[h] # <<>>)
        => /\ Len(outputPaths[h]) = 1
           /\ Extname(outputPaths[h][1]) = job[h].outputFormat
           /\ Dirname(outputPaths[h][1]) = Dirname(job[h].selectedFile)
           /\ Stem(outputPaths[h][1]) = Stem(job[h].selectedFile)

\* a simple conversion of the file with two dots and a dotted directory
\* succeeded
C9_Witness ==
    \E h \in Handlers :
        /\ pc[h] = "hud"
        /\ job[h].selectedFile = UpperDoc
        /\ ~Includes(job[h].outputFormat, "+")

\* C10: the list handed to the clipboard publish is the list of produced
\* output paths, one for each element in the order of production; a publish
\* that succeeds for paths without quote characters sets the clipboard to
\* exactly that list, and for report.docx with .pdf+.doc it is
\* [report.pdf, report.doc].
C10_ClipboardHoldsOutputs ==
    \A h \in Handlers :
        \A i \in 1..Len(io[h]) :
            io[h][i].op = "clipboard"
            => /\ io[h][i].arg = outputPaths[h]
               /\ Len(outputPaths[h]) = Len(Elements(h))
               /\ \A k \in 1..Len(outputPaths[h]) :
                     io[h][3 * k] = Event("write", io[h][i].arg[k], TRUE)
               /\ (io[h][i].ok /\ QuoteFree(job[h].selectedFile))
                     => clipboard[h] = outputPaths[h]
               /\ (io[h][i].ok /\ job[h].selectedFile = ReportDocx
                               /\ job[h].outputFormat = PDF_DOC)
                     => clipboard[h] = <<ReportPdf, ReportDoc>>

\* report.docx was converted with .pdf+.doc and the clipboard was set
C10_Witness ==
    \E h \in Handlers :
        /\ pc[h] = "hud"
        /\ job[h] = [selectedFile |-> ReportDocx, outputFormat |-> PDF_DOC]
        /\ clipboard[h] # <<>>

\* how often slot h has told the user that its conversion is over: the
\* success toast and HUD follow a clipboard call that returned, the failure
\* toast is the one the catch block sets
CompletionReports(h) ==
    (IF \E i \in 1..Len(io[h]) : io[h][i].op = "clipboard" /\ io[h][i].ok
     THEN 1 ELSE 0)
    + (IF toast[h].title = "Conversion Failed" THEN 1 ELSE 0)

\* C11: a conversion is started only in the Ready state (probe passed,
\* initialization finished, a file and a format selected), never after a
\* failed probe, and every started conversion reports its completion, as a
\* success or as a failure, exactly once.
C11_UiStateMachine ==
    /\ \A h \in Handlers :
         Started(h) =>
            /\ probe = "yes" /\ initPc = "ready" /\ ~isLoading
            /\ job[h].selectedFile # NoFile /\ job[h].outputFormat # Empty
    /\ probe = "no" => \A h \in Handlers : ~Started(h)
    /\ \A h \in Handlers :
         Started(h) =>
            /\ CompletionReports(h) <= 1
            /\ pc[h] = "done" => CompletionReports(h) = 1

\* the file of the same directory and stem with the extension e
SiblingWithExtension(p, e) == Dirname(p) \o <<"/">> \o Stem(p) \o e

\* the outputs a job can leave behind: one sibling per simple target
SiblingsOf(files) ==
    {SiblingWithExtension(f, e) : f \in files, e \in {PDF, DOC, DOCX}}

\* C12: the output-path list of a job depends on the job alone, so a second
\* run of the same job returns the list of the first run, and its writes land
\* on the files of the first run: every path a run has returned is on disk
\* and the disk never holds a file besides the siblings of the inputs.
C12_RerunSameOutputs ==
    /\ \A h \in Handlers :
         (Started(h) /\ Legal(job[h])) =>
            \A i \in 1..Len(outputPaths[h]) :
               /\ outputPaths[h][i] =
                     SiblingWithExtension(job[h].selectedFile, Elements(h)[i])
               /\ outputPaths[h][i] \in disk
    /\ \A g, h \in Handlers :
         (/\ Started(g) /\ job[g] = job[h]
          /\ Len(outputPaths[g]) = Len(Elements(g))
          /\ Len(outputPaths[h]) = Len(Elements(h)))
         => outputPaths[g] = outputPaths[h]
    /\ disk \subseteq SiblingsOf({p \in Paths : isSupportedFile(p)})

\* two runs of one simple job have both written and published: the later
\* write found the output of the run that had already converted
C12_Witness ==
    \E g, h \in Handlers :
        /\ g # h
        /\ job[g] = [selectedFile |-> ReportDocx, outputFormat |-> PDF]
        /\ job[h] = job[g]
        /\ pc[g] = "pop"
        /\ pc[h] = "hud"
        /\ outputPaths[h] = outputPaths[g]
        /\ disk = {ReportPdf}

\* C13: every extension of the catalog has a non-empty legal-output list,
\* which is what getOutputFormats returns for a file of that extension, and
\* whenever another supported file becomes the selected file, from the
\* Finder selection or from the picker, the output format is set to the
\* first element of the list of that file's extension.
C13_DefaultIsFirstLegal ==
    /\ \A e \in DOMAIN SUPPORTED_FORMATS : Len(SUPPORTED_FORMATS[e]) > 0
    /\ \A p \in {ReportDocx, UpperDoc} :
         getOutputFormats(p) = SUPPORTED_FORMATS[ToLowerCase(Extname(p))]
    /\ [][(selectedFile' # selectedFile /\ selectedFile' # NoFile) =>
            outputFormat' = SUPPORTED_FORMATS[ToLowerCase(Extname(selectedFile'))][1]]_vars

\* the picker replaced a .doc file by a .docx file after the dropdown had
\* been moved to .docx, a format the new file cannot have
C13_Witness ==
    /\ useFilePicker
    /\ selectedFile = ReportDocx
    /\ outputFormat = PDF
    /\ \E h \in Handlers :
         job[h] = [selectedFile |-> UpperDoc, outputFormat |-> DOCX]

\* the first path of the list, in list order, whose lower-cased extension is
\* .doc or .docx; NoFile when the list has none
FirstSupported(items) ==
    LET I == {i \in 1..Len(items) : ToLowerCase(Extname(items[i])) \in {DOC, DOCX}}
    IN IF I = {} THEN NoFile
       ELSE items[CHOOSE i \in I : \A k \in I : i <= k]

\* C14: when the Finder lookup of initialize returns a list of paths, the
\* selected file becomes the first path in list order whose lower-cased
\* extension is in the catalog and the picker stays off; when the list has
\* no supported path, or the lookup fails, no file is selected and the
\* picker is enabled. The lookup only runs after the probe found the tool.
C14_FirstSupportedFinderItem ==
    [][/\ \A items \in FormFinderSelections :
            InitializeFinderItems(items) =>
               /\ probe = "yes"
               /\ selectedFile' = FirstSupported(items)
               /\ useFilePicker' = (FirstSupported(items) = NoFile)
               /\ ~isLoading'
       /\ InitializeFinderFailed =>
            /\ probe = "yes"
            /\ selectedFile' = NoFile
            /\ useFilePicker'
            /\ ~isLoading'
      ]_vars

\* the Finder list began with an upper-case .DOC file, ahead of a .docx one
C14_Witness ==
    /\ initPc = "ready"
    /\ ~useFilePicker
    /\ selectedFile = UpperDoc

Simple(specifier) == ~Includes(specifier, "+")

\* C15: for every extension of the catalog, the elements handleConvert gets
\* by splitting one of its composite specifiers at "+" are simple specifiers
\* of the same list, the list has a simple specifier, and every specifier of
\* the catalog has a label that no other specifier has; so the elements a
\* conversion of a legal job works through are legal targets of its input.
C15_CatalogWellFormed ==
    /\ \A e \in DOMAIN SUPPORTED_FORMATS :
         LET list == SUPPORTED_FORMATS[e] IN
         /\ \E i \in 1..Len(list) : Simple(list[i])
         /\ \A i \in 1..Len(list) :
              /\ list[i] \in DOMAIN FORMAT_LABELS
              /\ \A k \in 1..Len(FormatsOf(list[i])) :
                   /\ Simple(FormatsOf(list[i])[k])
                   /\ FormatsOf(list[i])[k] \in Range(list)
    /\ \A a, b \in DOMAIN FORMAT_LABELS :
         a # b => FORMAT_LABELS[a] # FORMAT_LABELS[b]
    /\ \A h \in Handlers :
         (Started(h) /\ Legal(job[h])) =>
            \A k \in 1..Len(formats(h)) :
               /\ Simple(formats(h)[k])
               /\ formats(h)[k] \in Range(getOutputFormats(job[h].selectedFile))

\* the second element of the "both" option of a .DOC file is being converted
C15_Witness ==
    \E h \in Handlers :
        /\ pc[h] = "converting"
        /\ idx[h] = 2
        /\ job[h] = [selectedFile |-> UpperDoc, outputFormat |-> PDF_DOCX]

\* the legal targets of an input extension, as the specification lists them
DeclaredTargets(e) ==
    CASE e = DOC -> {PDF, DOCX, PDF_DOCX}
      [] e = DOCX -> {PDF, DOC, PDF_DOC}
      [] OTHER -> {}

\* C16: in every state of the form, after initialize, picker changes and
\* dropdown changes, a selected file has a catalog extension and the output
\* format is one of the legal targets of that extension; a path with an
\* unsupported extension is never the selected file.
C16_SelectionIsLegal ==
    /\ selectedFile # NoFile =>
         /\ ToLowerCase(Extname(selectedFile)) \in {DOC, DOCX}
         /\ outputFormat \in DeclaredTargets(ToLowerCase(Extname(selectedFile)))
    /\ selectedFile \notin {NotesTxt, DotDoc}

\* the picker holds a .DOC file with the dropdown moved to ".docx", after it
\* held a .docx file with the dropdown at "both" when Convert was pressed
C16_Witness ==
    /\ useFilePicker
    /\ selectedFile = UpperDoc
    /\ outputFormat = DOCX
    /\ \E h \in Handlers :
         job[h] = [selectedFile |-> ReportDocx, outputFormat |-> PDF_DOC]

\* an external call of convertDocument (read, converter, write) of slot h failed
ConversionStepFailed(h) ==
    \E i \in 1..Len(io[h]) :
        io[h][i].op \in {"read", "convert", "write"} /\ ~io[h][i].ok

\* the clipboard publish or the reveal of slot h has been called
PublishedOrRevealed(h) ==
    Count(h, "clipboard") > 0 \/ Count(h, "open") > 0 \/ clipboard[h] # <<>>

\* C17: the clipboard publish and the reveal are called only when every
\* element of the specifier has been converted and written; in a conversion
\* where a read, a converter call or a write failed neither is ever called
\* and the clipboard is not set, while the outputs written before the
\* failure are on disk.
C17_PublishOnlyAfterAllWritten ==
    \A h \in Handlers :
        Started(h) =>
           /\ PublishedOrRevealed(h) =>
                 /\ ~ConversionStepFailed(h)
                 /\ Len(outputPaths[h]) = Len(Elements(h))
                 /\ Count(h, "convert") = Len(Elements(h))
                 /\ Count(h, "write") = Len(Elements(h))
           /\ ConversionStepFailed(h) =>
                 /\ ~PublishedOrRevealed(h)
                 /\ \A i \in 1..Len(outputPaths[h]) : outputPaths[h][i] \in disk

\* the write of the second element failed: the first output is on disk and
\* nothing was published
C17_Witness ==
    \E h \in Handlers :
        /\ pc[h] = "done"
        /\ FailedAt(h, "write")
        /\ Len(Elements(h)) = 2
        /\ outputPaths[h] = <<ReportPdf>>
        /\ ReportPdf \in disk
        /\ clipboard[h] = <<>>

\* C18: for a supported input and a specifier legal for its extension, no
\* derived output path is the input path and no target extension is the
\* extension of the input, so no write of a conversion goes to its own
\* source file and the source is not among the files the conversions wrote.
C18_SourceNeverOverwritten ==
    /\ \A p \in {q \in EntryPaths : isSupportedFile(q)} :
         \A i \in 1..Len(getOutputFormats(p)) :
            \A k \in 1..Len(FormatsOf(getOutputFormats(p)[i])) :
               /\ OutputPath(p, FormatsOf(getOutputFormats(p)[i])[k]) # p
               /\ FormatsOf(getOutputFormats(p)[i])[k] # getExtension(p)
    /\ \A h \in Handlers :
         (Started(h) /\ Legal(job[h])) =>
            /\ \A i \in 1..Len(io[h]) :
                 io[h][i].op = "write" =>
                    /\ io[h][i].arg # job[h].selectedFile
                    /\ ToLowerCase(Extname(io[h][i].arg))
                          # ToLowerCase(Extname(job[h].selectedFile))
            /\ job[h].selectedFile \notin disk

\* both outputs of the "both" option of a .DOC file were written next to it,
\* on top of whatever carried those names
C18_Witness ==
    \E h \in Handlers :
        /\ job[h] = [selectedFile |-> UpperDoc, outputFormat |-> PDF_DOCX]
        /\ Len(outputPaths[h]) = 2
        /\ \A i \in 1..2 : outputPaths[h][i] \in disk
        /\ UpperDoc \notin disk

\* the call in slot h has set isConverting and has not reached its end
InFlight(h) == pc[h] \in {"toast", "converting", "hud", "open", "pop"}

C20_MissingSelectionOnlyReports ==
    [][\A h \in Handlers :
         (/\ pc[h] = "idle" /\ pc'[h] # "idle"
          /\ (selectedFile = NoFile \/ outputFormat = Empty))
         => /\ pc'[h] = "returned"
            /\ toast'[h].title = "Missing Selection"
            /\ UNCHANGED <<selectedFile, outputFormat, isConverting, mounted>>
            /\ UNCHANGED <<job, idx, outputPaths, io, clipboard, disk>>
            /\ io'[h] = <<>> /\ ~Started(h)'
      ]_vars

\* Convert was triggered on the emptied picker while an earlier call was
\* still under way: isConverting stayed set
C20_Witness ==
    \E g, h \in Handlers :
        /\ pc[h] = "returned"
        /\ selectedFile = NoFile
        /\ pc[g] = "toast"
        /\ isConverting

====
